---- MODULE Spec2Model ----
(***************************************************************************)
(* A model of the job orchestration and reconstruction core of DorsoDepth  *)
(* (src/api/main.py, src/api/database.py, src/api/video_processor.py).     *)
(*                                                                         *)
(* The service is one asyncio event loop.  process_video is an async       *)
(* background task; every call it makes (psycopg2, subprocess.run, boto3,  *)
(* cv2) is synchronous, so the only point where a running task gives the   *)
(* loop back is asyncio.sleep(5) in wait_for_completion (main.py:222,235). *)
(* The variable loop records which task holds the event loop: request      *)
(* handlers and the other tasks only run while it is free.                 *)
(***************************************************************************)
EXTENDS Naturals, Sequences, FiniteSets, TLC

VARIABLES
    jobs,       \* the jobs table: job_id -> row (database.py:36-46)
    pc,         \* where each job's background task stands in process_video
    loop,       \* the task that holds the event loop, or "free"
    exc,        \* the exception a task is handling: str(e), or NULL
    elapsed,    \* (datetime.now() - start_time).seconds of the job's watcher
    pipe,       \* the CompletedProcess subprocess.run returned for the job
    polled,     \* what the watcher's polls of the frames table have returned
    called,     \* which stages process_video has invoked for the job
    ret,        \* heatmap_video_path, the value stitch_heatmap_frames returned
    listed,     \* the objects list_objects_v2 returned for the job, in order
    video,      \* the file processed_videos/heatmap_{job}.mp4, or NULL
    tmp         \* the job's temporary files that exist in transient storage

vars == <<jobs, pc, loop, exc, elapsed, pipe, polled, called, ret, listed, video,
          tmp>>

(***************************************************************************)
(* Values                                                                  *)
(***************************************************************************)
\* job_id = str(uuid.uuid4()): opaque and never reused
Jobs == {"J1", "J2"}

\* Python's None / SQL NULL.  Texts are non-empty tuples of text pieces, so
\* that a text built by an f-string keeps its parts; the empty text is <<"">>.
NULL == <<>>

\* asyncio.sleep(5)
PollInterval == 5

\* wait_for_completion(job_id, timeout: int = 300)
Timeout == 300

\* stitch_heatmap_frames(self, job_id, fps: int = 10)
DefaultStitchFps == 10

\* longest list of frame rows a poll returns in the model
MaxFrames == 2

\* most objects listed under a job's prefix in the model
MaxObjs == 3

\* fps values an upload may carry
FpsValues == {2}

\* the frame statuses the external pipeline writes
FrameStatuses == {"pending", "processing", "completed", "done", "failed"}

\* seconds subprocess.run keeps the event loop until the pipeline has
\* exited: none worth counting, or two poll intervals
RunSeconds == {0, 2 * PollInterval}

\* captured standard-error texts of the external pipeline
StderrTexts == {"decode error", ""}

NoRow == [present |-> FALSE, status |-> "none", heatmap_video_path |-> NULL,
          error_message |-> NULL, fps |-> 0]

\* a psycopg2 error raised by a statement, as str(e)
DbError == <<"connection already closed">>

\* an OSError raised by os.makedirs or by spawning the subprocess
SpawnError == <<"[Errno 2] No such file or directory: 'go'">>

\* raise Exception("Processing timeout exceeded")
TimeoutText == <<"Processing timeout exceeded">>

\* no output file
NoVideo == [exists |-> FALSE, frames |-> <<>>, fps |-> 0]

\* no poll made yet
NoPoll == [last |-> "none", allEmpty |-> TRUE]

\* subprocess.run not reached yet
NoPipe == [outcome |-> "none", returncode |-> 0, stderr |-> ""]

(***************************************************************************)
(* database.py                                                             *)
(***************************************************************************)
\* INSERT INTO jobs (job_id, original_filename, file_path, fps, status, created_at)
create_job(tbl, j, job_data) ==
    [tbl EXCEPT ![j] = [present |-> TRUE, status |-> job_data.status,
                        heatmap_video_path |-> NULL, error_message |-> NULL,
                        fps |-> job_data.fps]]

\* SELECT * FROM jobs WHERE job_id = %s; NoRow stands for None
get_job(tbl, j) == IF tbl[j].present THEN tbl[j] ELSE NoRow

\* Mutant of update_job_status: the statement without its WHERE clause.
update_job_status_NoWhere(tbl, j, status) ==
    [k \in DOMAIN tbl |->
        IF tbl[k].present THEN [tbl[k] EXCEPT !.status = status] ELSE tbl[k]]

\* UPDATE jobs SET status = %s WHERE job_id = %s
update_job_status(tbl, j, status) ==
    IF tbl[j].present THEN [tbl EXCEPT ![j].status = status] ELSE tbl

\* Mutant of update_job_completion: the path is set and the status is not.
update_job_completion_PathOnly(tbl, j, status, heatmap_video_path) ==
    IF tbl[j].present
    THEN [tbl EXCEPT ![j].heatmap_video_path = heatmap_video_path]
    ELSE tbl

\* Mutant of update_job_completion: the statement without its WHERE clause.
update_job_completion_NoWhere(tbl, j, status, heatmap_video_path) ==
    [k \in DOMAIN tbl |->
        IF tbl[k].present
        THEN [tbl[k] EXCEPT !.status = status,
                            !.heatmap_video_path = heatmap_video_path]
        ELSE tbl[k]]

\* UPDATE jobs SET status = %s, heatmap_video_path = %s WHERE job_id = %s
update_job_completion(tbl, j, status, heatmap_video_path) ==
    IF tbl[j].present
    THEN [tbl EXCEPT ![j].status = status,
                     ![j].heatmap_video_path = heatmap_video_path]
    ELSE tbl

\* UPDATE jobs SET status = 'failed', error_message = %s WHERE job_id = %s
update_job_error(tbl, j, error_message) ==
    IF tbl[j].present
    THEN [tbl EXCEPT ![j].status = "failed", ![j].error_message = error_message]
    ELSE tbl

\* DELETE FROM jobs WHERE job_id = %s
db_delete_job(tbl, j) == [tbl EXCEPT ![j] = NoRow]

\* Mutant of get_frames_for_job: the frames selected without the test of
\* lines 171-177 for the job's row.
get_frames_for_job_NoJobCheck(tbl, j, rows) == rows

\* the rows of the frames table for the job, or [] when the job has no row
get_frames_for_job(tbl, j, rows) == IF tbl[j].present THEN rows ELSE <<>>

(***************************************************************************)
(* main.py                                                                 *)
(***************************************************************************)
\* Mutant of PipelineFailed: the exit code is not looked at.
PipelineFailed_Ignored(result) == FALSE

\* if result.returncode != 0: raise Exception(f"Go pipeline failed: ...")
PipelineFailed(result) == result.returncode # 0

\* wait_for_completion's partition of one poll's rows
completed_frames(frames) ==
    {i \in DOMAIN frames : frames[i] \in {"completed", "done"}}

pending_frames(frames) ==
    {i \in DOMAIN frames : frames[i] \in {"pending", "processing"}}

failed_frames(frames) == {i \in DOMAIN frames : frames[i] = "failed"}

\* Mutant of SecondsAfterSleep: start_time taken anew on every pass.
SecondsAfterSleep_Restarted(seconds) == 0

\* (datetime.now() - start_time).seconds once asyncio.sleep(5) has ended
SecondsAfterSleep(seconds) == seconds + PollInterval

\* while (datetime.now() - start_time).seconds < timeout: the loop ends
WatchExpired(seconds) == ~(seconds < Timeout)

\* Mutant of WatchDecision: without the test of lines 221-223, no rows at
\* all count as no pending and no failed row.
WatchDecision_EmptySatisfied(frames) ==
    IF Cardinality(pending_frames(frames)) = 0
       /\ Cardinality(failed_frames(frames)) = 0 THEN "return"
    ELSE IF Cardinality(failed_frames(frames)) > 0 THEN "return"
    ELSE "sleep"

\* What one pass of the while body does with the rows: "sleep" (lines 221-223
\* and 235) or "return" (lines 229-233).
WatchDecision(frames) ==
    IF frames = <<>> THEN "sleep"
    ELSE IF Cardinality(pending_frames(frames)) = 0
            /\ Cardinality(failed_frames(frames)) = 0 THEN "return"
    ELSE IF Cardinality(failed_frames(frames)) > 0 THEN "return"
    ELSE "sleep"

\* The rows of a poll as the history variable polled keeps them: whether
\* there were none, whether one was failed, whether one was still pending.
Seen(frames) ==
    IF frames = <<>> THEN "empty"
    ELSE IF \E i \in DOMAIN frames : frames[i] = "failed"
         THEN IF \E i \in DOMAIN frames : frames[i] \in {"pending", "processing"}
              THEN "failed+pending" ELSE "failed"
    ELSE IF \E i \in DOMAIN frames : frames[i] \in {"pending", "processing"}
         THEN "pending"
    ELSE "complete"

(***************************************************************************)
(* video_processor.py                                                      *)
(*                                                                         *)
(* An object key is a tuple of text pieces, for example                    *)
(*   <<"heatmaps/J1/", "frame_", "1", "0", "_heatmap", ".jpg">>            *)
(* for heatmaps/J1/frame_10_heatmap.jpg: the pieces are the substrings the *)
(* code searches for, splits on and parses.  A listed object carries its   *)
(* key, whether download_file succeeds for it, and whether cv2.imread      *)
(* decodes the downloaded file.                                            *)
(***************************************************************************)
Digits == {"0", "1", "2", "3", "4", "5", "6", "7", "8", "9"}

DigitVal(d) ==
    CASE d = "0" -> 0 [] d = "1" -> 1 [] d = "2" -> 2 [] d = "3" -> 3
      [] d = "4" -> 4 [] d = "5" -> 5 [] d = "6" -> 6 [] d = "7" -> 7
      [] d = "8" -> 8 [] d = "9" -> 9

\* the first index of piece p in text s, or 0
IndexOf(s, p) ==
    IF \E i \in DOMAIN s : s[i] = p
    THEN CHOOSE i \in DOMAIN s : s[i] = p /\ \A k \in 1..(i - 1) : s[k] # p
    ELSE 0

\* "_heatmap.jpg" in key
HasHeatmapJpg(key) ==
    \E i \in 1..(Len(key) - 1) : key[i] = "_heatmap" /\ key[i + 1] = ".jpg"

\* key.split("frame_"): the texts between the occurrences of "frame_"
RECURSIVE SplitOn(_, _)
SplitOn(s, p) ==
    LET i == IndexOf(s, p)
    IN  IF i = 0 THEN <<s>>
        ELSE <<SubSeq(s, 1, i - 1)>> \o SplitOn(SubSeq(s, i + 1, Len(s)), p)

\* int(text): defined for a non-empty text of decimal digits
IsInt(s) == Len(s) > 0 /\ \A i \in DOMAIN s : s[i] \in Digits

RECURSIVE IntOf(_)
IntOf(s) ==
    IF Len(s) = 0 THEN 0
    ELSE 10 * IntOf(SubSeq(s, 1, Len(s) - 1)) + DigitVal(s[Len(s)])

\* key.split("frame_")[1].split("_heatmap")[0], or "raise" where the code
\* raises IndexError (no "frame_" in the key)
frame_number_str(key) ==
    LET parts == SplitOn(key, "frame_")
    IN  IF Len(parts) < 2 THEN <<"raise">>
        ELSE SplitOn(parts[2], "_heatmap")[1]

\* download_heatmap_frames, from object i of the listing on: frames is the
\* list built so far, made the set of temporary files created so far.  Any
\* exception (IndexError, ValueError of int(), a download error) is caught
\* at line 71 and [] is returned.
RECURSIVE DownloadFrom(_, _, _, _)
DownloadFrom(listing, i, frames, made) ==
    IF i > Len(listing) THEN [frames |-> frames, made |-> made]
    ELSE LET obj == listing[i]
             str == frame_number_str(obj.key)
         IN  IF ~HasHeatmapJpg(obj.key)
             THEN DownloadFrom(listing, i + 1, frames, made)
             ELSE IF ~IsInt(str)
             THEN [frames |-> <<>>, made |-> made]
             ELSE IF ~obj.downloadable
             THEN [frames |-> <<>>, made |-> made \cup {i}]
             ELSE DownloadFrom(listing, i + 1,
                     Append(frames, [frame_number |-> IntOf(str),
                                     s3_key |-> obj.key,
                                     local_path |-> i]),
                     made \cup {i})

download_heatmap_frames(listing) == DownloadFrom(listing, 1, <<>>, {})

\* list.sort(key=...) is stable: insertion after the last element whose key
\* is not greater.
RECURSIVE InsertSorted(_, _, _)
InsertSorted(sorted, x, k) ==
    IF k > Len(sorted) THEN Append(sorted, x)
    ELSE IF sorted[k].frame_number > x.frame_number
         THEN SubSeq(sorted, 1, k - 1) \o <<x>> \o SubSeq(sorted, k, Len(sorted))
         ELSE InsertSorted(sorted, x, k + 1)

RECURSIVE SortFrom(_, _, _)
SortFrom(frames, i, sorted) ==
    IF i > Len(frames) THEN sorted
    ELSE SortFrom(frames, i + 1, InsertSorted(sorted, frames[i], 1))

\* Mutant of sort_frames: the ordinals compared as texts, "10" before "9".
RECURSIVE TextGreater(_, _)
TextGreater(a, b) ==
    IF a = <<>> THEN FALSE
    ELSE IF b = <<>> THEN TRUE
    ELSE IF a[1] = b[1] THEN TextGreater(Tail(a), Tail(b))
    ELSE DigitVal(a[1]) > DigitVal(b[1])

RECURSIVE InsertByText(_, _, _)
InsertByText(sorted, x, k) ==
    IF k > Len(sorted) THEN Append(sorted, x)
    ELSE IF TextGreater(frame_number_str(sorted[k].s3_key),
                        frame_number_str(x.s3_key))
         THEN SubSeq(sorted, 1, k - 1) \o <<x>> \o SubSeq(sorted, k, Len(sorted))
         ELSE InsertByText(sorted, x, k + 1)

RECURSIVE SortByTextFrom(_, _, _)
SortByTextFrom(frames, i, sorted) ==
    IF i > Len(frames) THEN sorted
    ELSE SortByTextFrom(frames, i + 1, InsertByText(sorted, frames[i], 1))

sort_frames_ByText(frames) == SortByTextFrom(frames, 1, <<>>)

\* frames.sort(key=lambda x: x["frame_number"])
sort_frames(frames) == SortFrom(frames, 1, <<>>)

\* the frames video_writer.write receives: those cv2.imread decodes
RECURSIVE Written(_, _, _)
Written(frames, listing, i) ==
    IF i > Len(frames) THEN <<>>
    ELSE (IF listing[frames[i].local_path].readable
          THEN <<frames[i].frame_number>> ELSE <<>>)
         \o Written(frames, listing, i + 1)

\* create_video_from_frames: the exception raised (raised # NULL) or the
\* path returned, the video written, and the temporary files unlinked.
create_video_from_frames(frames, j, fps, listing, writerOpens) ==
    IF frames = <<>>
    THEN [raised |-> <<"No frames provided for video creation">>,
          path |-> NULL, video |-> NoVideo, unlinked |-> {}]
    ELSE IF ~listing[frames[1].local_path].readable
    THEN [raised |-> <<"Failed to read first frame: ", "tmp", j>>,
          path |-> NULL, video |-> NoVideo, unlinked |-> {}]
    ELSE IF ~writerOpens
    THEN [raised |-> <<"Failed to create video writer">>,
          path |-> NULL, video |-> NoVideo, unlinked |-> {}]
    ELSE [raised |-> NULL,
          path |-> <<"processed_videos/heatmap_", j, ".mp4">>,
          video |-> [exists |-> TRUE, frames |-> Written(frames, listing, 1),
                     fps |-> fps],
          unlinked |-> {frames[i].local_path : i \in DOMAIN frames}]

\* Mutant of stitch_heatmap_frames: without the test of lines 22-23.
stitch_heatmap_frames_Unchecked(j, fps, listing, writerOpens) ==
    LET got == download_heatmap_frames(listing)
        made == create_video_from_frames(sort_frames(got.frames), j, fps,
                                         listing, writerOpens)
    IN  [raised |-> made.raised, path |-> made.path,
         video |-> made.video, left |-> got.made \ made.unlinked]

\* stitch_heatmap_frames(job_id, fps): what it raises or returns, the video
\* it leaves, and the temporary files it leaves in transient storage
stitch_heatmap_frames(j, fps, listing, writerOpens) ==
    LET got == download_heatmap_frames(listing)
    IN  IF got.frames = <<>>
        THEN [raised |-> <<"No heatmap frames found in S3">>, path |-> NULL,
              video |-> NoVideo, left |-> got.made]
        ELSE LET made == create_video_from_frames(sort_frames(got.frames), j,
                                                  fps, listing, writerOpens)
             IN  [raised |-> made.raised, path |-> made.path,
                  video |-> made.video, left |-> got.made \ made.unlinked]

(***************************************************************************)
(* Inputs                                                                  *)
(***************************************************************************)
\* what subprocess.run does: it returns a CompletedProcess, or raises
PipeResults ==
    {[outcome |-> "exited", returncode |-> 0, stderr |-> ""]}
    \cup {[outcome |-> "exited", returncode |-> 1, stderr |-> e] : e \in StderrTexts}
    \cup {[outcome |-> "raised", returncode |-> 0, stderr |-> ""]}

\* the lists of rows a query of the frames table returns, by frame_number
FrameRows == UNION {[1..n -> FrameStatuses] : n \in 0..MaxFrames}

\* the frame ordinals as the keys spell them
OrdinalTexts == {<<"2">>, <<"9">>, <<"1", "0">>}

ArtifactKey(digits, ext) ==
    <<"heatmaps/job/", "frame_">> \o digits \o <<"_heatmap", ext>>

Keys ==
    {ArtifactKey(d, ".jpg") : d \in OrdinalTexts}
    \cup {ArtifactKey(<<"2">>, ".png")}
    \cup {<<"heatmaps/job/", "summary", "_heatmap", ".jpg">>}

\* Whether the download succeeds and whether the image decodes matter only
\* for a key the code downloads.
Objects ==
    {o \in [key : Keys, downloadable : BOOLEAN, readable : BOOLEAN] :
        \/ HasHeatmapJpg(o.key) /\ IsInt(frame_number_str(o.key))
        \/ o.downloadable /\ o.readable}

\* the listings of at most n objects, each key listed once, in any order
Listings(n) ==
    UNION {{l \in [1..k -> Objects] :
              \A a, b \in 1..k : a # b => l[a].key # l[b].key} : k \in 0..n}

(***************************************************************************)
(* State machine                                                           *)
(***************************************************************************)
Init ==
    /\ jobs = [j \in Jobs |-> NoRow]
    /\ pc = [j \in Jobs |-> "idle"]
    /\ loop = "free"
    /\ exc = [j \in Jobs |-> NULL]
    /\ elapsed = [j \in Jobs |-> 0]
    /\ pipe = [j \in Jobs |-> NoPipe]
    /\ polled = [j \in Jobs |-> NoPoll]
    /\ called = [j \in Jobs |-> {}]
    /\ ret = [j \in Jobs |-> NULL]
    /\ listed = [j \in Jobs |-> <<>>]
    /\ video = [j \in Jobs |-> NoVideo]
    /\ tmp = [j \in Jobs |-> {}]

\* POST /api/upload: the row is inserted as uploaded and process_video is
\* queued as a background task.
upload_video(j, fps) ==
    /\ pc[j] = "idle"
    /\ loop = "free"
    /\ jobs' = create_job(jobs, j, [status |-> "uploaded", fps |-> fps])
    /\ pc' = [pc EXCEPT ![j] = "queued"]
    /\ UNCHANGED <<loop, exc, elapsed, pipe, polled, called, ret, listed, video, tmp>>

\* process_video, line 175: the task starts and sets the status processing.
\* ok is whether the statement succeeds; a failing statement raises.
SetProcessing(j, ok) ==
    /\ pc[j] = "queued"
    /\ loop = "free"
    /\ loop' = j
    /\ IF ok
       THEN /\ jobs' = update_job_status(jobs, j, "processing")
            /\ pc' = [pc EXCEPT ![j] = "invoke"]
            /\ exc' = exc
       ELSE /\ jobs' = jobs
            /\ pc' = [pc EXCEPT ![j] = "except"]
            /\ exc' = [exc EXCEPT ![j] = DbError]
    /\ UNCHANGED <<elapsed, pipe, polled, called, ret, listed, video, tmp>>

\* process_video, lines 177-202: the external pipeline is run to its end and
\* a non-zero exit code raises; otherwise wait_for_completion is entered.
\* subprocess.run does not give the event loop back: the took seconds it
\* takes pass for every watcher that sleeps, and none is resumed meanwhile.
Invoke(j, result, took) ==
    /\ pc[j] = "invoke"
    /\ loop = j
    /\ pipe' = [pipe EXCEPT ![j] = result]
    /\ IF result.outcome = "raised"
       THEN /\ exc' = [exc EXCEPT ![j] = SpawnError]
            /\ pc' = [pc EXCEPT ![j] = "except"]
            /\ called' = called
       ELSE IF PipelineFailed(result)
       THEN /\ exc' = [exc EXCEPT ![j] = <<"Go pipeline failed: ", result.stderr>>]
            /\ pc' = [pc EXCEPT ![j] = "except"]
            /\ called' = called
       ELSE /\ exc' = exc
            /\ pc' = [pc EXCEPT ![j] = "watch"]
            /\ called' = [called EXCEPT ![j] = @ \cup {"wait_for_completion"}]
    /\ elapsed' = [k \in Jobs |->
                     IF k = j THEN 0
                     ELSE IF pc[k] = "sleeping" THEN elapsed[k] + took
                     ELSE elapsed[k]]
    /\ UNCHANGED <<jobs, loop, polled, ret, listed, video, tmp>>

\* wait_for_completion, lines 218-237: the loop test and one pass of the
\* body.  rows is what the frames table holds for the job at this poll.
Poll(j, rows) ==
    /\ pc[j] = "watch"
    /\ loop = j
    /\ IF WatchExpired(elapsed[j])
       THEN /\ exc' = [exc EXCEPT ![j] = TimeoutText]
            /\ pc' = [pc EXCEPT ![j] = "except"]
            /\ elapsed' = [elapsed EXCEPT ![j] = 0]
            /\ UNCHANGED <<loop, polled>>
       ELSE LET frames == get_frames_for_job(jobs, j, rows)
            IN  /\ polled' = [polled EXCEPT ![j] =
                        [last |-> Seen(frames),
                         allEmpty |-> @.allEmpty /\ frames = <<>>]]
                /\ exc' = exc
                /\ IF WatchDecision(frames) = "sleep"
                   THEN /\ pc' = [pc EXCEPT ![j] = "sleeping"]
                        /\ loop' = "free"
                        /\ elapsed' = elapsed
                   ELSE /\ pc' = [pc EXCEPT ![j] = "stitch"]
                        /\ loop' = loop
                        /\ elapsed' = [elapsed EXCEPT ![j] = 0]
    /\ UNCHANGED <<jobs, pipe, called, ret, listed, video, tmp>>

\* asyncio.sleep(5) ends and the task is scheduled again.
Wake(j) ==
    /\ pc[j] = "sleeping"
    /\ loop = "free"
    /\ loop' = j
    /\ pc' = [pc EXCEPT ![j] = "watch"]
    /\ elapsed' = [elapsed EXCEPT ![j] = SecondsAfterSleep(@)]
    /\ UNCHANGED <<jobs, exc, pipe, polled, called, ret, listed, video, tmp>>

\* process_video, line 204: stitch_heatmap_frames(job_id), with the default
\* fps.  listing is what list_objects_v2 returns under the job's prefix.
Stitch(j, listing, writerOpens) ==
    /\ pc[j] = "stitch"
    /\ loop = j
    /\ LET r == stitch_heatmap_frames(j, DefaultStitchFps, listing, writerOpens)
       IN  /\ called' = [called EXCEPT ![j] = @ \cup {"stitch_heatmap_frames"}]
           /\ listed' = [listed EXCEPT ![j] = listing]
           /\ video' = [video EXCEPT ![j] = r.video]
           /\ tmp' = [tmp EXCEPT ![j] = r.left]
           /\ IF r.raised # NULL
              THEN /\ exc' = [exc EXCEPT ![j] = r.raised]
                   /\ pc' = [pc EXCEPT ![j] = "except"]
                   /\ ret' = ret
              ELSE /\ exc' = exc
                   /\ pc' = [pc EXCEPT ![j] = "complete"]
                   /\ ret' = [ret EXCEPT ![j] = r.path]
    /\ UNCHANGED <<jobs, loop, elapsed, pipe, polled>>

\* process_video, lines 206-208: the job is recorded completed and the task
\* ends.
Complete(j, ok) ==
    /\ pc[j] = "complete"
    /\ loop = j
    /\ ret' = [ret EXCEPT ![j] = NULL]
    /\ IF ok
       THEN /\ jobs' = update_job_completion(jobs, j, "completed", ret[j])
            /\ pc' = [pc EXCEPT ![j] = "done"]
            /\ loop' = "free"
            /\ exc' = exc
       ELSE /\ jobs' = jobs
            /\ pc' = [pc EXCEPT ![j] = "except"]
            /\ loop' = loop
            /\ exc' = [exc EXCEPT ![j] = DbError]
    /\ UNCHANGED <<elapsed, pipe, polled, called, listed, video, tmp>>

\* process_video, line 212, in the except block: the status is set failed.
\* A failing statement raises out of the handler and out of process_video.
HandlerStatus(j, ok) ==
    /\ pc[j] = "except"
    /\ loop = j
    /\ IF ok
       THEN /\ jobs' = update_job_status(jobs, j, "failed")
            /\ pc' = [pc EXCEPT ![j] = "except2"]
            /\ loop' = loop
            /\ exc' = exc
       ELSE /\ jobs' = jobs
            /\ pc' = [pc EXCEPT ![j] = "escaped"]
            /\ loop' = "free"
            /\ exc' = [exc EXCEPT ![j] = NULL]
    /\ UNCHANGED <<elapsed, pipe, polled, called, ret, listed, video, tmp>>

\* process_video, line 213: the message str(e) is recorded and the task ends.
HandlerError(j, ok) ==
    /\ pc[j] = "except2"
    /\ loop = j
    /\ loop' = "free"
    /\ exc' = [exc EXCEPT ![j] = NULL]
    /\ IF ok
       THEN /\ jobs' = update_job_error(jobs, j, exc[j])
            /\ pc' = [pc EXCEPT ![j] = "done"]
       ELSE /\ jobs' = jobs
            /\ pc' = [pc EXCEPT ![j] = "escaped"]
    /\ UNCHANGED <<elapsed, pipe, polled, called, ret, listed, video, tmp>>

\* DELETE /api/jobs/{job_id}: 404 when the job has no row; otherwise the
\* output video the row names is removed and the row is deleted.  The handler
\* does not look at the job's background task.  A failing DELETE statement
\* raises after the files are gone.
delete_job(j, ok) ==
    /\ loop = "free"
    /\ get_job(jobs, j).present
    /\ video' = [video EXCEPT ![j] =
                    IF get_job(jobs, j).heatmap_video_path # NULL THEN NoVideo
                    ELSE @]
    /\ jobs' = IF ok THEN db_delete_job(jobs, j) ELSE jobs
    /\ UNCHANGED <<pc, loop, exc, elapsed, pipe, polled, called, ret, listed, tmp>>

\* One poll result of each kind the watcher tells apart.
RowSamples ==
    {<<>>, <<"pending">>, <<"processing", "completed">>, <<"completed", "done">>,
     <<"failed">>, <<"failed", "pending">>}

Artifact(digits, readable) ==
    [key |-> ArtifactKey(digits, ".jpg"), downloadable |-> TRUE,
     readable |-> readable]

\* frame_02_heatmap.jpg and frame_2_heatmap.jpg are two keys of one ordinal:
\* int("02") = int("2").  The listings of two or three artifacts that hold
\* the key frame_02_heatmap.jpg.
DupListings ==
    LET objs == {Artifact(d, TRUE) : d \in {<<"2">>, <<"0", "2">>, <<"9">>}}
    IN  UNION {{l \in [1..k -> objs] :
                  /\ \A a, b \in 1..k : a # b => l[a].key # l[b].key
                  /\ \E a \in 1..k : l[a] = Artifact(<<"0", "2">>, TRUE)} :
               k \in 2..3}

\* No artifact, two artifacts listed out of order, an undecodable artifact.
ListingSamples ==
    {<<>>, <<Artifact(<<"9">>, TRUE), Artifact(<<"1", "0">>, TRUE)>>,
     <<Artifact(<<"2">>, FALSE)>>}

\* The service with two jobs and a database whose statements all succeed.
Next ==
    \/ \E j \in Jobs, fps \in FpsValues : upload_video(j, fps)
    \/ \E j \in Jobs : SetProcessing(j, TRUE)
    \/ \E j \in Jobs, result \in PipeResults, took \in RunSeconds :
           Invoke(j, result, took)
    \/ \E j \in Jobs, rows \in RowSamples : Poll(j, rows)
    \/ \E j \in Jobs : Wake(j)
    \/ \E j \in Jobs, listing \in ListingSamples, w \in BOOLEAN :
           Stitch(j, listing, w)
    \/ \E j \in Jobs : Complete(j, TRUE)
    \/ \E j \in Jobs : HandlerStatus(j, TRUE)
    \/ \E j \in Jobs : HandlerError(j, TRUE)

Spec == Init /\ [][Next]_vars

\* The same service with a database any statement of which may raise.
NextFault ==
    \/ \E j \in Jobs, fps \in FpsValues : upload_video(j, fps)
    \/ \E j \in Jobs, ok \in BOOLEAN : SetProcessing(j, ok)
    \/ \E j \in Jobs, result \in PipeResults, took \in RunSeconds :
           Invoke(j, result, took)
    \/ \E j \in Jobs, rows \in RowSamples : Poll(j, rows)
    \/ \E j \in Jobs : Wake(j)
    \/ \E j \in Jobs, listing \in ListingSamples, w \in BOOLEAN :
           Stitch(j, listing, w)
    \/ \E j \in Jobs, ok \in BOOLEAN : Complete(j, ok)
    \/ \E j \in Jobs, ok \in BOOLEAN : HandlerStatus(j, ok)
    \/ \E j \in Jobs, ok \in BOOLEAN : HandlerError(j, ok)

SpecFault == Init /\ [][NextFault]_vars

\* One job, with every poll result of at most MaxFrames rows, every listing
\* of at most MaxObjs objects and the listings with two keys of one ordinal.
NextOne ==
    \/ \E fps \in FpsValues : upload_video("J1", fps)
    \/ SetProcessing("J1", TRUE)
    \/ \E result \in PipeResults, took \in RunSeconds : Invoke("J1", result, took)
    \/ \E rows \in FrameRows : Poll("J1", rows)
    \/ Wake("J1")
    \/ \E listing \in Listings(MaxObjs) \cup DupListings, w \in BOOLEAN :
           Stitch("J1", listing, w)
    \/ Complete("J1", TRUE)
    \/ HandlerStatus("J1", TRUE)
    \/ HandlerError("J1", TRUE)

SpecOne == Init /\ [][NextOne]_vars

\* The service of Spec, where the event loop runs every task that is ready
\* and a running task goes on to its next statement.
TaskStep(j) ==
    \/ SetProcessing(j, TRUE)
    \/ \E result \in PipeResults, took \in RunSeconds : Invoke(j, result, took)
    \/ \E rows \in RowSamples : Poll(j, rows)
    \/ Wake(j)
    \/ \E listing \in ListingSamples, w \in BOOLEAN : Stitch(j, listing, w)
    \/ Complete(j, TRUE)
    \/ HandlerStatus(j, TRUE)
    \/ HandlerError(j, TRUE)

SpecLive == Init /\ [][Next]_vars /\ \A j \in Jobs : WF_vars(TaskStep(j))

\* The service of SpecFault with the handler that deletes a job.
NextDelete ==
    \/ \E j \in Jobs, fps \in FpsValues : upload_video(j, fps)
    \/ \E j \in Jobs, ok \in BOOLEAN : SetProcessing(j, ok)
    \/ \E j \in Jobs, result \in PipeResults, took \in RunSeconds :
           Invoke(j, result, took)
    \/ \E j \in Jobs, rows \in RowSamples : Poll(j, rows)
    \/ \E j \in Jobs : Wake(j)
    \/ \E j \in Jobs, listing \in ListingSamples, w \in BOOLEAN :
           Stitch(j, listing, w)
    \/ \E j \in Jobs, ok \in BOOLEAN : Complete(j, ok)
    \/ \E j \in Jobs, ok \in BOOLEAN : HandlerStatus(j, ok)
    \/ \E j \in Jobs, ok \in BOOLEAN : HandlerError(j, ok)
    \/ \E j \in Jobs, ok \in BOOLEAN : delete_job(j, ok)

SpecDelete == Init /\ [][NextDelete]_vars

\* One job that may be deleted at any time the event loop is free, with every
\* poll result of at most MaxFrames rows, where the event loop runs the task
\* whenever it is ready.
NextDeleteOne ==
    \/ \E fps \in FpsValues : upload_video("J1", fps)
    \/ \E ok \in BOOLEAN : SetProcessing("J1", ok)
    \/ \E result \in PipeResults, took \in RunSeconds : Invoke("J1", result, took)
    \/ \E rows \in FrameRows : Poll("J1", rows)
    \/ Wake("J1")
    \/ \E listing \in ListingSamples, w \in BOOLEAN : Stitch("J1", listing, w)
    \/ \E ok \in BOOLEAN : Complete("J1", ok)
    \/ \E ok \in BOOLEAN : HandlerStatus("J1", ok)
    \/ \E ok \in BOOLEAN : HandlerError("J1", ok)
    \/ \E ok \in BOOLEAN : delete_job("J1", ok)

SpecDeleteLive ==
    Init /\ [][NextDeleteOne]_vars /\ WF_vars(TaskStep("J1"))

(***************************************************************************)
(* Properties                                                              *)
(***************************************************************************)
Ended(j) == pc[j] \in {"done", "escaped"}

\* GET /api/jobs/{job_id}: the handler runs when the event loop is free and
\* returns the row, or 404
ReaderCanRun == loop = "free"

get_job_status(j) ==
    LET job == get_job(jobs, j)
    IN  IF ~job.present THEN [NoRow EXCEPT !.status = "404"] ELSE job

StatusStep(a, b) ==
    \/ a = b
    \/ <<a, b>> \in {<<"uploaded", "processing">>, <<"uploaded", "failed">>,
                    <<"processing", "completed">>, <<"processing", "failed">>}

\* C1: a job's status only moves forward along uploaded -> processing ->
\* {completed | failed} (failed also straight from uploaded): a row starts as
\* uploaded, no step returns it to uploaded, and no step changes a status
\* that is completed or failed.
C1_StatusMovesForward ==
    [][\A j \in Jobs :
          /\ (~jobs[j].present /\ jobs'[j].present) => jobs'[j].status = "uploaded"
          /\ (jobs[j].present /\ jobs'[j].present) =>
                StatusStep(jobs[j].status, jobs'[j].status)]_vars

\* C1 witness: both terminal statuses have been reached, one job each.
C1_Witness ==
    \E j, k \in Jobs :
        /\ pc[j] = "done" /\ jobs[j].status = "completed"
        /\ pc[k] = "done" /\ jobs[k].status = "failed"

\* C2: when a poll of the watcher returned a failed frame row, the job ends
\* failed and not completed.
C2_FailedFrameFailsJob ==
    \A j \in Jobs :
        (Ended(j) /\ polled[j].last \in {"failed", "failed+pending"}) =>
            /\ jobs[j].status = "failed"
            /\ jobs[j].error_message # NULL

\* C3: after the pipeline exited with a non-zero code, neither the watcher
\* nor the aggregator is invoked, and the task ends with the job failed and
\* error_message the text "Go pipeline failed: " followed by the captured
\* standard error.
C3_PipelineFailureFailsJob ==
    \A j \in Jobs :
        (pipe[j].outcome = "exited" /\ pipe[j].returncode # 0) =>
            /\ called[j] = {}
            /\ pc[j] \in {"except", "except2", "done"}
            /\ pc[j] = "done" =>
                  /\ jobs[j].status = "failed"
                  /\ jobs[j].error_message
                        = <<"Go pipeline failed: ", pipe[j].stderr>>

\* C3 witness: a task has ended after exit code 1 with stderr "decode error".
C3_Witness ==
    \E j \in Jobs :
        /\ pc[j] = "done"
        /\ pipe[j] = [outcome |-> "exited", returncode |-> 1,
                      stderr |-> "decode error"]
        /\ jobs[j].error_message = <<"Go pipeline failed: ", "decode error">>

\* C4: while every poll so far returned no rows the watcher does not return,
\* the aggregator is not invoked and the job is not completed; the watcher
\* ends by raising the timeout, and the task ends with the job failed with
\* the timeout message.
C4_EmptyFrameSetTimesOut ==
    \A j \in Jobs :
        (polled[j].last # "none" /\ polled[j].allEmpty) =>
            /\ pc[j] \in {"watch", "sleeping", "except", "except2", "done"}
            /\ "stitch_heatmap_frames" \notin called[j]
            /\ jobs[j].status # "completed"
            /\ pc[j] \in {"except", "except2"} => exc[j] = TimeoutText
            /\ pc[j] = "done" =>
                  /\ jobs[j].status = "failed"
                  /\ jobs[j].error_message = TimeoutText

\* C4 witness: a task has ended after a watch window of empty polls only.
C4_Witness ==
    \E j \in Jobs :
        /\ pc[j] = "done"
        /\ polled[j] = [last |-> "empty", allEmpty |-> TRUE]
        /\ jobs[j].status = "failed"

\* C5: every job whose task was queued is eventually completed or failed.
C5_JobLeavesProcessing ==
    \A j \in Jobs :
        (pc[j] = "queued") ~> (jobs[j].status \in {"completed", "failed"})

\* C5 witness: a job is failed by the timeout, its watcher having polled
\* pending frames up to the ceiling.
C5_Witness ==
    \E j \in Jobs :
        /\ jobs[j].status = "failed"
        /\ jobs[j].error_message = TimeoutText
        /\ polled[j].last = "pending"

\* C6: whenever a reader can run, the row it gets for a completed job has a
\* heatmap_video_path and the row it gets for a failed job has an
\* error_message.
C6_ReaderSeesWholeOutcome ==
    ReaderCanRun =>
        \A j \in Jobs :
            LET job == get_job_status(j)
            IN  /\ job.status = "completed" => job.heatmap_video_path # NULL
                /\ job.status = "failed" => job.error_message # NULL

\* C7: in every state a row has a heatmap_video_path only if its status is
\* completed and an error_message only if its status is failed.
C7_FieldsMatchStatus ==
    \A j \in Jobs :
        jobs[j].present =>
            /\ jobs[j].heatmap_video_path # NULL => jobs[j].status = "completed"
            /\ jobs[j].error_message # NULL => jobs[j].status = "failed"

\* C7 witness: one row with a path and one row with a message.
C7_Witness ==
    \E j, k \in Jobs :
        /\ jobs[j].heatmap_video_path # NULL
        /\ jobs[k].error_message # NULL

\* C8: no exception leaves process_video: a task that has ended has returned
\* normally, and a job whose task ended after a fault is failed.
C8_NoFaultEscapes ==
    \A j \in Jobs :
        /\ pc[j] # "escaped"
        /\ (pc[j] = "done" /\ jobs[j].status # "completed") =>
              jobs[j].status = "failed"

Ascending(ordinals) ==
    \A a, b \in DOMAIN ordinals : a < b => ordinals[a] <= ordinals[b]

\* the listing holds only artifacts that download and decode
AllArtifacts(listing) ==
    \A i \in DOMAIN listing :
        /\ listing[i].key \in {ArtifactKey(d, ".jpg") : d \in OrdinalTexts}
        /\ listing[i].downloadable
        /\ listing[i].readable

\* the number a digit text spells, read off digit by digit
Spelled(digits) ==
    CASE digits = <<"2">> -> 2 [] digits = <<"9">> -> 9
      [] digits = <<"1", "0">> -> 10 [] digits = <<"0", "2">> -> 2

\* C9: the frames of a produced video are in ascending order of the numeric
\* frame ordinal, whatever the order of the listing; when every listed
\* object is an artifact that downloads and decodes, the video holds each
\* listed ordinal once.
C9_FramesInOrdinalOrder ==
    \A j \in Jobs :
        video[j].exists =>
            /\ Ascending(video[j].frames)
            /\ AllArtifacts(listed[j]) =>
                  /\ Len(video[j].frames) = Len(listed[j])
                  /\ {video[j].frames[i] : i \in DOMAIN video[j].frames}
                        = {Spelled(d) : d \in {t \in OrdinalTexts :
                              \E i \in DOMAIN listed[j] :
                                  listed[j][i].key = ArtifactKey(t, ".jpg")}}

\* C9 witness: a video of frames 2, 9, 10 made from the listing that has
\* them as 10, 9, 2.
C9_Witness ==
    /\ video["J1"].exists
    /\ video["J1"].frames = <<2, 9, 10>>
    /\ [i \in DOMAIN listed["J1"] |-> listed["J1"][i].key]
          = <<ArtifactKey(<<"1", "0">>, ".jpg"), ArtifactKey(<<"9">>, ".jpg"),
              ArtifactKey(<<"2">>, ".jpg")>>

\* C10: once stitch_heatmap_frames has returned or raised, none of the
\* temporary files it created for the job is left.
C10_NoTransientFilesLeft ==
    \A j \in Jobs : "stitch_heatmap_frames" \in called[j] => tmp[j] = {}

\* the digit texts of the artifact keys the inputs hold
ArtifactTexts == OrdinalTexts \cup {<<"0", "2">>}

\* the key is heatmaps/{job_id}/frame_{N}_heatmap.jpg for digits N
MatchesConvention(key) == \E d \in ArtifactTexts : key = ArtifactKey(d, ".jpg")

\* the frame ordinals of the listed objects whose keys match the convention
ListedOrdinals(listing) ==
    {Spelled(d) : d \in {t \in ArtifactTexts :
        \E i \in DOMAIN listing : listing[i].key = ArtifactKey(t, ".jpg")}}

\* C11: a video produced after a poll of completed rows only has as many
\* frames as there are distinct frame ordinals among the listed artifacts:
\* none is dropped, none written twice.
C11_FrameCountIsOrdinalCount ==
    \A j \in Jobs :
        (video[j].exists /\ polled[j].last = "complete") =>
            Len(video[j].frames) = Cardinality(ListedOrdinals(listed[j]))

\* C12: a task that ended after the pipeline exited 0, the watcher's last
\* poll held only completed rows and every listed object was an artifact
\* that downloads and decodes, leaves the job completed with a video of one
\* frame per artifact, encoded at the job's fps.  (A video writer that does
\* not open is not among the claim's premises: the job is then failed.)
C12_CompletedVideoAtJobFps ==
    \A j \in Jobs :
        (/\ pc[j] = "done"
         /\ pipe[j].outcome = "exited" /\ pipe[j].returncode = 0
         /\ polled[j].last = "complete"
         /\ listed[j] # <<>> /\ AllArtifacts(listed[j])) =>
            \/ /\ jobs[j].status = "failed"
               /\ jobs[j].error_message = <<"Failed to create video writer">>
            \/ /\ jobs[j].status = "completed"
               /\ video[j].exists
               /\ Len(video[j].frames) = Len(listed[j])
               /\ video[j].fps = jobs[j].fps

\* C13: when the aggregator was invoked and no listed object is an artifact,
\* no video is produced, the job is never completed, and the task ends with
\* the job failed with the message "No heatmap frames found in S3".
C13_NoArtifactsFailsJob ==
    \A j \in Jobs :
        (/\ "stitch_heatmap_frames" \in called[j]
         /\ ~\E i \in DOMAIN listed[j] : MatchesConvention(listed[j][i].key)) =>
            /\ ~video[j].exists
            /\ jobs[j].status # "completed"
            /\ pc[j] \in {"except", "except2", "done"}
            /\ pc[j] \in {"except", "except2"} =>
                  exc[j] = <<"No heatmap frames found in S3">>
            /\ pc[j] = "done" =>
                  /\ jobs[j].status = "failed"
                  /\ jobs[j].error_message = <<"No heatmap frames found in S3">>

\* C13 witness: a task has ended after a poll of completed rows only and an
\* empty listing.
C13_Witness ==
    \E j \in Jobs :
        /\ pc[j] = "done"
        /\ polled[j].last = "complete"
        /\ "stitch_heatmap_frames" \in called[j]
        /\ listed[j] = <<>>
        /\ jobs[j].error_message = <<"No heatmap frames found in S3">>

\* C14: the stages of a job run in the order invoker, watcher, aggregator,
\* each only after the one before succeeded: the watcher is entered only
\* after the pipeline exited 0, the aggregator is invoked only after a poll
\* of the watcher held rows that are all completed (never after a failed
\* row, never after the timeout), and the job is completed only after the
\* aggregator returned the path of a video.
C14_StagesInOrder ==
    \A j \in Jobs :
        /\ "wait_for_completion" \in called[j] =>
              pipe[j].outcome = "exited" /\ pipe[j].returncode = 0
        /\ (pc[j] = "stitch" \/ "stitch_heatmap_frames" \in called[j]) =>
              /\ "wait_for_completion" \in called[j]
              /\ polled[j].last = "complete"
        /\ (pc[j] = "complete" \/ jobs[j].status = "completed") =>
              /\ "stitch_heatmap_frames" \in called[j]
              /\ video[j].exists
        /\ jobs[j].status = "completed" =>
              jobs[j].heatmap_video_path
                  = <<"processed_videos/heatmap_", j, ".mp4">>

\* C15: wait_for_completion returns to its caller without raising only at a
\* poll whose rows are not empty and all completed or done; at a poll with a
\* row pending or processing and no row failed it sleeps, to poll again.
C15_SatisfiedOnlyWhenAllComplete ==
    [][\A j \in Jobs :
          /\ (pc[j] = "watch" /\ pc'[j] = "stitch") =>
                polled'[j].last = "complete"
          /\ (pc[j] = "watch" /\ pc'[j] \in {"sleeping", "stitch"}
                /\ polled'[j].last = "pending") =>
                pc'[j] = "sleeping" /\ loop' = "free"]_vars

\* C16: wait_for_completion always ends, and it raises the timeout no later
\* than one poll interval after the ceiling: whenever the loop test is about
\* to be evaluated, at most Timeout + PollInterval seconds have passed since
\* the watch began, and a watcher that has started returns or raises.
C16_WatcherEndsByCeiling ==
    /\ [](\A j \in Jobs :
             pc[j] = "watch" => elapsed[j] <= Timeout + PollInterval)
    /\ \A j \in Jobs :
          (pc[j] = "watch") ~> (pc[j] \in {"stitch", "except"})

\* C17: one job's task never keeps another job's task from taking steps: a
\* watcher between two polls does not hold the event loop, and while a job
\* is at its pipeline run or at its aggregation, the event loop is not kept
\* from any other job whose task is ready to start or to be resumed.
C17_TasksDoNotBlockEachOther ==
    \A a \in Jobs :
        /\ pc[a] = "sleeping" => loop # a
        /\ pc[a] \in {"invoke", "stitch"} =>
              \A b \in Jobs \ {a} : pc[b] \in {"queued", "sleeping"} => loop # a

IsArtifact(obj) == MatchesConvention(obj.key)

\* the listing without the objects whose keys do not match the convention
Matching(listing) == SelectSeq(listing, IsArtifact)

KeysOf(frames) == [i \in DOMAIN frames |-> frames[i].s3_key]

\* C18: an object whose key does not match the convention is ignored: once
\* the aggregator was invoked after a poll of completed rows only, the
\* frames download_heatmap_frames returns for what was listed are those it
\* returns for the matching objects alone, and aggregation raises with the
\* other objects listed only what it raises without them.
C18_NonMatchingKeysIgnored ==
    \A j \in Jobs :
        ("stitch_heatmap_frames" \in called[j] /\ polled[j].last = "complete") =>
            /\ KeysOf(download_heatmap_frames(listed[j]).frames)
                  = KeysOf(download_heatmap_frames(Matching(listed[j])).frames)
            /\ \A w \in BOOLEAN :
                  stitch_heatmap_frames(j, DefaultStitchFps, listed[j], w).raised
                  = stitch_heatmap_frames(j, DefaultStitchFps,
                                          Matching(listed[j]), w).raised

\* C19: when the watcher saw every frame completed and a listed artifact
\* cannot be decoded, aggregation raises and the job ends failed with a
\* message: no video is produced without the frame and the job is never
\* completed.
C19_UndecodableFrameFailsJob ==
    \A j \in Jobs :
        (/\ "stitch_heatmap_frames" \in called[j]
         /\ polled[j].last = "complete"
         /\ \E i \in DOMAIN listed[j] :
               IsArtifact(listed[j][i]) /\ ~listed[j][i].readable) =>
            /\ ~video[j].exists
            /\ jobs[j].status # "completed"
            /\ pc[j] = "done" =>
                  jobs[j].status = "failed" /\ jobs[j].error_message # NULL

\* the ordinal a key of the convention carries
OrdinalOf(key) == Spelled(SubSeq(key, 3, Len(key) - 2))

\* the index of the first listed artifact of ordinal n
FirstListed(listing, n) ==
    CHOOSE i \in DOMAIN listing :
        /\ IsArtifact(listing[i]) /\ OrdinalOf(listing[i].key) = n
        /\ \A k \in 1..(i - 1) :
              ~(IsArtifact(listing[k]) /\ OrdinalOf(listing[k].key) = n)

\* C20: of the listed artifacts that carry one ordinal only the first is
\* kept: when a video was produced after a poll of completed rows only and
\* every listed object is an artifact
\* that downloads and decodes, download_heatmap_frames returned for each
\* listed ordinal one frame, that of the first listed key, and the video holds
\* no ordinal twice.
C20_FirstOfEachOrdinalKept ==
    \A j \in Jobs :
        (/\ video[j].exists
         /\ polled[j].last = "complete"
         /\ \A i \in DOMAIN listed[j] :
               /\ IsArtifact(listed[j][i])
               /\ listed[j][i].downloadable /\ listed[j][i].readable) =>
            LET frames == download_heatmap_frames(listed[j]).frames
            IN  /\ \A n \in ListedOrdinals(listed[j]) :
                      \E i \in DOMAIN frames :
                          /\ frames[i].frame_number = n
                          /\ frames[i].s3_key
                                = listed[j][FirstListed(listed[j], n)].key
                          /\ \A k \in DOMAIN frames :
                                frames[k].frame_number = n => k = i
                /\ \A a, b \in DOMAIN video[j].frames :
                      a # b => video[j].frames[a] # video[j].frames[b]

\* the three fields of a row that record a job's outcome
Outcome(row) == <<row.status, row.heatmap_video_path, row.error_message>>

\* C21: the status, heatmap_video_path and error_message of an existing row
\* are written by the row's own background task only: a step that changes
\* them for job b is a step of process_video(b) at one of its four writes
\* (lines 175, 206, 212, 213), so no step of another job's task and no
\* request handler changes them.
C21_OnlyOwnTaskWritesOutcome ==
    [][\A b \in Jobs :
          (/\ jobs[b].present /\ jobs'[b].present
           /\ Outcome(jobs'[b]) # Outcome(jobs[b])) =>
              /\ loop = b \/ loop' = b
              /\ pc[b] \in {"queued", "complete", "except", "except2"}
              /\ pc'[b] # pc[b]]_vars

\* C21 witness: one job's task has recorded completed and the video's path
\* while the other job is in flight, its row still processing with neither
\* path nor message.
C21_Witness ==
    \E a, b \in Jobs :
        /\ a # b
        /\ pc[a] = "done" /\ jobs[a].status = "completed"
        /\ jobs[a].heatmap_video_path # NULL
        /\ pc[b] = "sleeping" /\ jobs[b].status = "processing"
        /\ jobs[b].heatmap_video_path = NULL /\ jobs[b].error_message = NULL

\* the job's row was deleted: the job was uploaded and has no row
Deleted(j) == pc[j] # "idle" /\ ~jobs[j].present

\* C22: deleting a job's row does not cancel its background task (the step
\* that removes the row leaves the task where it stands); once the row is
\* deleted no later step brings it back; every poll the watcher then makes
\* finds no rows, so that it sleeps or, at the ceiling, raises the timeout;
\* and the task of a deleted job ends.
C22_DeletedJobStaysAbsent ==
    /\ [][\A j \in Jobs :
             /\ (jobs[j].present /\ ~jobs'[j].present) => pc'[j] = pc[j]
             /\ Deleted(j) => ~jobs'[j].present
             /\ (Deleted(j) /\ pc[j] = "watch" /\ pc'[j] # "watch") =>
                   \/ pc'[j] = "sleeping" /\ polled'[j].last = "empty"
                   \/ pc'[j] = "except" /\ exc'[j] = TimeoutText]_vars
    /\ \A j \in Jobs : Deleted(j) ~> Ended(j)

\* C22 witness: a row deleted while its task was in flight (the task has
\* held the event loop since its last sleep ended): the watcher had polled
\* rows, then none, and raised the timeout, and the except block has made
\* its first write with the row still absent.
C22_Witness ==
    \E j \in Jobs :
        /\ Deleted(j)
        /\ pc[j] = "except2" /\ loop = j
        /\ exc[j] = TimeoutText
        /\ polled[j] = [last |-> "empty", allEmpty |-> FALSE]

====
